---- MODULE Spec2Model ----
(***************************************************************************)
(* A model of trakt-duplicates-removal.py: the duplicate selection of      *)
(* DuplicateCleaner._find_duplicates, the token lifecycle of TraktClient   *)
(* and the run of DuplicateCleaner over the two media types.               *)
(*                                                                         *)
(* Python values are modelled as follows.  A dict is a function whose      *)
(* domain is the set of its keys, so a missing key is a key outside        *)
(* DOMAIN.  A str that the code compares or splits (watched_at) is the     *)
(* sequence of its code points.  None is the model value None.             *)
(***************************************************************************)
EXTENDS Integers, Sequences, FiniteSets, TLC

VARIABLES
    KEEP_PER_DAY,   \* the module-level flag KEEP_PER_DAY
    CLIENT_ID,      \* the module-level credentials, after "os.getenv(..) or .."
    CLIENT_SECRET,
    USERNAME,
    pc,             \* position of the single thread of control
    stack,          \* the return addresses of the calls in progress
    ret,            \* the value the last call returned
    error,          \* the exception that ended the run, None without one
    now,            \* time.time()
    file,           \* the content of TOKEN_FILE
    token_data,     \* TraktClient.token_data
    arg,            \* refresh_access_token: its token_data argument
    auth,           \* authenticate: start_time, timeout, interval, and its polls
    call,           \* request: url, method, data
    headers,        \* request: the access token of headers['Authorization']
    response,       \* request: response
    todo,           \* run: the media types the for loop has still to visit
    media_type,     \* run: media_type
    history,        \* run: history, the list handed to _find_duplicates
    duplicates,     \* run: duplicates, the list _find_duplicates returned
    stats,          \* DuplicateCleaner.stats
    issued,         \* the server: the number of tokens it has issued
    calls,          \* the calls of request made so far in the run, per endpoint
    sends,          \* the API requests sent so far in the run, per endpoint
    outcome,        \* per media type, what run saw of its fetch and its removal
    req,            \* the sends, refreshes and device flows of the current call
    refresh_tried,  \* the access tokens a refresh was requested for
    auth_failed,    \* where a device flow has returned no token in this run
    save_call       \* the token an earlier client was asked to save, and when

\* The duplicate selection and its inputs.
fdVars == <<KEEP_PER_DAY, media_type, history, duplicates>>

\* The client, the run and the server.
runVars ==
    <<CLIENT_ID, CLIENT_SECRET, USERNAME, stack, ret, error, now, file,
      token_data, arg, auth, call, headers, response, todo, stats, issued,
      calls, sends, outcome, req, refresh_tried, auth_failed,
      save_call>>

vars == <<pc, fdVars, runVars>>

\* None, told apart from every dict.
None == [None |-> TRUE]

\* ------------------------------------------------------------------------
\* Strings as sequences of code points
\* ------------------------------------------------------------------------

\* ord('T')
CharT == 84

\* ord('0')
Char0 == 48

\* Python's str < str: lexicographic on code points, a proper prefix first.
RECURSIVE StrLess(_, _)
StrLess(a, b) ==
    IF b = <<>> THEN FALSE
    ELSE IF a = <<>> THEN TRUE
    ELSE IF a[1] # b[1] THEN a[1] < b[1]
    ELSE StrLess(Tail(a), Tail(b))

\* s.split('T')[0]: the part of s before its first 'T', all of s without one.
RECURSIVE SplitT0(_)
SplitT0(s) ==
    IF s = <<>> THEN <<>>
    ELSE IF s[1] = CharT THEN <<>>
    ELSE <<s[1]>> \o SplitT0(Tail(s))

\* ------------------------------------------------------------------------
\* DuplicateCleaner._find_duplicates
\* ------------------------------------------------------------------------

\* entry_key = 'movie' if media_type == 'movies' else 'episode'
EntryKey(mt) == IF mt = "movies" THEN "movie" ELSE "episode"

\* entry[entry_key]['ids']['trakt'] does not raise KeyError
HasTraktId(entry, entry_key) ==
    /\ entry_key \in DOMAIN entry
    /\ "ids" \in DOMAIN entry[entry_key]
    /\ "trakt" \in DOMAIN entry[entry_key]["ids"]

TraktId(entry, entry_key) == entry[entry_key]["ids"]["trakt"]

\* d[key].append(item) on a defaultdict(list) kept in insertion order: a
\* sequence of [key, items] records.
DictAppend(d, key, item) ==
    IF \E i \in DOMAIN d : d[i].key = key
    THEN [i \in DOMAIN d |->
            IF d[i].key = key
            THEN [key |-> key, items |-> Append(d[i].items, item)]
            ELSE d[i]]
    ELSE Append(d, [key |-> key, items |-> <<item>>])

\* The grouping keyed by the reference's title instead of its trakt id.
RECURSIVE GroupByTitle(_, _)
GroupByTitle(hist, entry_key) ==
    IF hist = <<>> THEN <<>>
    ELSE LET n == Len(hist)
             grouped == GroupByTitle(SubSeq(hist, 1, n - 1), entry_key)
             entry == hist[n]
         IN  IF HasTraktId(entry, entry_key)
             THEN DictAppend(grouped, entry[entry_key]["title"], entry)
             ELSE grouped

\* The first loop left at the first entry that raises KeyError.
RECURSIVE GroupUntilKeyError(_, _)
GroupUntilKeyError(hist, entry_key) ==
    IF hist = <<>> THEN <<>>
    ELSE LET n == Len(hist)
             grouped == GroupUntilKeyError(SubSeq(hist, 1, n - 1), entry_key)
             entry == hist[n]
         IN  IF \A i \in 1..n : HasTraktId(hist[i], entry_key)
             THEN DictAppend(grouped, TraktId(entry, entry_key), entry)
             ELSE grouped

\* The first loop: group by trakt id, skipping the entries that raise KeyError.
RECURSIVE GroupByTraktId(_, _)
GroupByTraktId(hist, entry_key) ==
    IF hist = <<>> THEN <<>>
    ELSE LET n == Len(hist)
             grouped == GroupByTraktId(SubSeq(hist, 1, n - 1), entry_key)
             entry == hist[n]
         IN  IF HasTraktId(entry, entry_key)
             THEN DictAppend(grouped, TraktId(entry, entry_key), entry)
             ELSE grouped

\* day_map: the entries of one trakt id by the date part of watched_at.
RECURSIVE DayMap(_)
DayMap(entries) ==
    IF entries = <<>> THEN <<>>
    ELSE LET n == Len(entries)
             entry == entries[n]
         IN  DictAppend(DayMap(SubSeq(entries, 1, n - 1)),
                        SplitT0(entry["watched_at"]), entry)

\* The subgroups with the per-day split left out.
SubgroupsIgnoringDay(entries, keep_per_day) == <<entries>>

\* subgroups of one trakt id: [entries], or list(day_map.values())
Subgroups(entries, keep_per_day) ==
    IF keep_per_day
    THEN LET day_map == DayMap(entries)
         IN  [i \in DOMAIN day_map |-> day_map[i].items]
    ELSE <<entries>>

\* The sort key without the id: watched_at alone.
SortKeyWatchedAt(x, y) == StrLess(x["watched_at"], y["watched_at"])

\* (x['watched_at'], x['id']) < (y['watched_at'], y['id']) on tuples
SortKeyLess(x, y) ==
    \/ StrLess(x["watched_at"], y["watched_at"])
    \/ /\ x["watched_at"] = y["watched_at"]
       /\ x["id"] < y["id"]

\* Insert x into the sorted sequence s after every element not greater than it.
RECURSIVE SortedInsert(_, _)
SortedInsert(s, x) ==
    IF s = <<>> THEN <<x>>
    ELSE IF SortKeyLess(x, s[1]) THEN <<x>> \o s
    ELSE <<s[1]>> \o SortedInsert(Tail(s), x)

\* group.sort(key=lambda x: (x['watched_at'], x['id'])): a stable sort.
RECURSIVE SortGroup(_)
SortGroup(group) ==
    IF group = <<>> THEN <<>>
    ELSE SortedInsert(SortGroup(SubSeq(group, 1, Len(group) - 1)),
                      group[Len(group)])

\* entry.get('progress', 0)
Progress(entry) ==
    IF "progress" \in DOMAIN entry THEN entry["progress"] ELSE 0

\* The keeper chosen without looking at progress: always the last entry.
KeeperNewest(sorted) == sorted[Len(sorted)]

\* The keeper with the fallback on the first entry instead of the last.
KeeperOldestFallback(sorted) ==
    LET full == {i \in DOMAIN sorted : Progress(sorted[i]) >= 100}
    IN  IF full # {}
        THEN sorted[CHOOSE i \in full : \A j \in full : i <= j]
        ELSE sorted[1]

\* The keeper of a sorted group: the first entry with progress >= 100,
\* else the last entry.
Keeper(sorted) ==
    LET full == {i \in DOMAIN sorted : Progress(sorted[i]) >= 100}
    IN  IF full # {}
        THEN sorted[CHOOSE i \in full : \A j \in full : i <= j]
        ELSE sorted[Len(sorted)]

\* entry['_title']: the media title, prefixed with the show title for episodes.
Title(entry, entry_key) ==
    LET title == IF "title" \in DOMAIN entry[entry_key]
                 THEN entry[entry_key]["title"] ELSE "Unknown"
        show_title == IF "show" \in DOMAIN entry /\ "title" \in DOMAIN entry["show"]
                      THEN entry["show"]["title"] ELSE ""
    IN  IF entry_key = "episode" /\ show_title # ""
        THEN <<show_title, ": ", title>>
        ELSE <<title>>

\* entry['_title'] = ... on the entry
WithTitle(entry, entry_key) ==
    [k \in DOMAIN entry \cup {"_title"} |->
        IF k = "_title" THEN Title(entry, entry_key) ELSE entry[k]]

\* The marking that compares watched_at instead of id.
RECURSIVE MarkOthersByTime(_, _, _)
MarkOthersByTime(sorted, keeper, entry_key) ==
    IF sorted = <<>> THEN <<>>
    ELSE LET rest == MarkOthersByTime(Tail(sorted), keeper, entry_key)
         IN  IF sorted[1]["watched_at"] # keeper["watched_at"]
             THEN <<WithTitle(sorted[1], entry_key)>> \o rest
             ELSE rest

\* The marking that stops at the first entry it marks.
RECURSIVE MarkFirstOther(_, _, _)
MarkFirstOther(sorted, keeper, entry_key) ==
    IF sorted = <<>> THEN <<>>
    ELSE IF sorted[1]["id"] # keeper["id"]
         THEN <<WithTitle(sorted[1], entry_key)>>
         ELSE MarkFirstOther(Tail(sorted), keeper, entry_key)

\* The entries of one group that are marked, in sorted order, each annotated.
RECURSIVE MarkOthers(_, _, _)
MarkOthers(sorted, keeper, entry_key) ==
    IF sorted = <<>> THEN <<>>
    ELSE LET rest == MarkOthers(Tail(sorted), keeper, entry_key)
         IN  IF sorted[1]["id"] # keeper["id"]
             THEN <<WithTitle(sorted[1], entry_key)>> \o rest
             ELSE rest

\* One group: nothing when len(group) <= 1, else the marked entries.
GroupDuplicates(group, entry_key) ==
    IF Len(group) > 1
    THEN LET sorted == SortGroup(group)
         IN  MarkOthers(sorted, Keeper(sorted), entry_key)
    ELSE <<>>

\* for group in subgroups: ...
RECURSIVE SubgroupsDuplicates(_, _)
SubgroupsDuplicates(subgroups, entry_key) ==
    IF subgroups = <<>> THEN <<>>
    ELSE GroupDuplicates(subgroups[1], entry_key)
            \o SubgroupsDuplicates(Tail(subgroups), entry_key)

\* for tid, entries in grouped.items(): ...
RECURSIVE GroupedDuplicates(_, _, _)
GroupedDuplicates(grouped, entry_key, keep_per_day) ==
    IF grouped = <<>> THEN <<>>
    ELSE SubgroupsDuplicates(Subgroups(grouped[1].items, keep_per_day), entry_key)
            \o GroupedDuplicates(Tail(grouped), entry_key, keep_per_day)

\* _find_duplicates(history, media_type): the returned list.
FindDuplicates(hist, mt, keep_per_day) ==
    GroupedDuplicates(GroupByTraktId(hist, EntryKey(mt)), EntryKey(mt), keep_per_day)

\* The entries of history after the call: the marked ones carry '_title'.
\* The entries of duplicates are the very dicts of history, so an entry that
\* merely shares its id with a marked entry of another group, or that was
\* skipped by the grouping, is left as it was. Entries of equal content are
\* in one group and are marked together, so that the entry at position i was
\* marked exactly when duplicates holds it with its '_title'.
AnnotateHistory(hist, dups, entry_key) ==
    [i \in DOMAIN hist |->
        IF /\ HasTraktId(hist[i], entry_key)
           /\ \E j \in DOMAIN dups : dups[j] = WithTitle(hist[i], entry_key)
        THEN WithTitle(hist[i], entry_key)
        ELSE hist[i]]

\* ------------------------------------------------------------------------
\* The histories _find_duplicates is applied to
\* ------------------------------------------------------------------------

\* The longest history.
MaxHist == 3

\* "<d>T<t>" for one-digit d and t, and "<d>" alone.
DateTime(d, t) == <<Char0 + d, CharT, Char0 + t>>
DateOnly(d) == <<Char0 + d>>

WatchedAts == {DateTime(1, 0), DateTime(1, 1), DateOnly(2)}

\* A movie or episode reference: with a trakt id, with ids that hold no
\* trakt id, or with no ids at all.
MediaRefs ==
    {[ids |-> [trakt |-> t], title |-> "M"] : t \in {1, 2}}
        \cup {[ids |-> [slug |-> "m"], title |-> "M"], [title |-> "M"]}

\* The key an entry holds its reference under: the one of the history's
\* media type, or (an entry of the wrong kind) the other one.
MediaKeys == {"movie", "episode"}

\* entry.get('progress') of the entries: absent, or one of these.
ProgressValues == {50, 100}

\* The choices for an optional key: left out ({}), or one of the values.
Optional(values) == {{}} \cup {{v} : v \in values}

\* A history entry: 'progress' is optional (ps is {} or {progress}), and an
\* episode entry carries its show.
Entry(id, w, key, m, ps) ==
    [k \in {"id", "watched_at", key}
            \cup (IF ps = {} THEN {} ELSE {"progress"})
            \cup (IF key = "episode" THEN {"show"} ELSE {}) |->
        IF k = "id" THEN id
        ELSE IF k = "watched_at" THEN w
        ELSE IF k = "progress" THEN CHOOSE p \in ps : TRUE
        ELSE IF k = "show" THEN [title |-> "S"]
        ELSE m]

\* The entries a history of media type mt is made of: every reference under
\* the type's own key, and one entry of the other kind.
EntryRefs(mt) ==
    {<<EntryKey(mt), m>> : m \in MediaRefs}
        \cup {<<CHOOSE k \in MediaKeys : k # EntryKey(mt), [ids |-> [trakt |-> 1], title |-> "M"]>>}

\* ------------------------------------------------------------------------
\* Configuration, token file and server
\* ------------------------------------------------------------------------

\* os.getenv(name) or default: env is {} (unset) or {value}.
GetenvOr(env, default) ==
    IF env = {} \/ env = {""} THEN default ELSE CHOOSE v \in env : TRUE

EnvValues == Optional({"", "set"})

\* TOKEN_FILE does not exist, or does not hold JSON.
NoFile == [absent |-> TRUE]
CorruptFile == [corrupt |-> TRUE]

\* The token dict of a token response: the n-th token the server issues.
NewToken(n, expires_in) ==
    [access_token |-> n, refresh_token |-> n, expires_in |-> expires_in]

\* expires_at taken to be the lifetime, not the time it ends.
WithExpiresAtRelative(token, t) ==
    [k \in DOMAIN token \cup {"expires_at"} |->
        IF k = "expires_at" THEN token["expires_in"] ELSE token[k]]

\* token_data['expires_at'] = time.time() + token_data['expires_in'] at time t
WithExpiresAt(token, t) ==
    [k \in DOMAIN token \cup {"expires_at"} |->
        IF k = "expires_at" THEN t + token["expires_in"] ELSE token[k]]

\* The lifetimes of the tokens the server issues.
ExpiresIns == {2}

\* What TOKEN_FILE holds when the run starts (at time 0): nothing, no JSON,
\* or a token of an earlier run: expired, about to expire, or long-lived.
TokenFiles ==
    {NoFile, CorruptFile}
        \cup {[access_token |-> 0, refresh_token |-> 0, expires_in |-> 1,
               expires_at |-> x] : x \in {-1, 1, 50}}

\* The longest time one HTTP exchange takes.
MaxDelay == 1

Delays == 0..MaxDelay

\* The device code response: expires_in, and interval when it is given.
DeviceTimeouts == {2, 3}
DeviceIntervals == Optional({1})

\* The statuses of the responses.
DeviceCodeStatuses == {200, 500}
PollStatuses == {200, 400, 429, 410}
RefreshStatuses == {200, 401}
\* A removal may also be answered 201.
ApiStatuses(kind) == IF kind = "remove" THEN {200, 201, 401, 500} ELSE {200, 401, 500}

\* The histories the server returns for a media type: empty, one entry, and
\* three entries of one trakt id, two of them on the same day.
RunHistories(mt) ==
    {<<>>,
     <<Entry(1, DateTime(1, 0), EntryKey(mt), [ids |-> [trakt |-> 1], title |-> "M"], {})>>,
     <<Entry(3, DateTime(1, 1), EntryKey(mt), [ids |-> [trakt |-> 1], title |-> "M"], {}),
       Entry(1, DateTime(1, 0), EntryKey(mt), [ids |-> [trakt |-> 1], title |-> "M"], {100}),
       Entry(2, DateOnly(2), EntryKey(mt), [ids |-> [trakt |-> 1], title |-> "M"], {})>>}

\* response.json() of an API response.
Bodies(kind, mt, status) ==
    IF kind = "history" /\ status = 200 THEN RunHistories(mt) ELSE {<<>>}

MediaTypes == <<"movies", "episodes">>

\* The endpoints, a history or removal request counted per media type.
Endpoints ==
    {"history_movies", "history_episodes", "remove_movies", "remove_episodes"}

Endpoint(kind, mt) ==
    IF kind = "history"
    THEN (IF mt = "movies" THEN "history_movies" ELSE "history_episodes")
    ELSE (IF mt = "movies" THEN "remove_movies" ELSE "remove_episodes")

\* ------------------------------------------------------------------------
\* The state before anything has run
\* ------------------------------------------------------------------------

\* polls, status and answered are the number of polls sent in this call, and
\* the status and the arrival time of the last poll's response.
NoAuth ==
    [start_time |-> 0, timeout |-> 0, interval |-> 0,
     polls |-> 0, status |-> 0, answered |-> 0]
NoCall == [kind |-> "", data |-> <<>>]
NoResponse == [status |-> 0, body |-> <<>>]
NoHeader == -1

\* Nothing sent yet by the current call of request (or, before the first
\* call, by the construction of the client).
NoRequest == [sends |-> 0, refreshes |-> 0, flows |-> 0]

Idle ==
    /\ stack = <<>>
    /\ ret = None
    /\ error = ""
    /\ now = 0
    /\ token_data = None
    /\ arg = None
    /\ auth = NoAuth
    /\ call = NoCall
    /\ headers = NoHeader
    /\ response = NoResponse
    /\ todo = MediaTypes
    /\ stats = [mt \in {"movies", "episodes"} |-> [count |-> 0, removed |-> <<>>]]
    /\ issued = 0
    /\ calls = [e \in Endpoints |-> 0]
    /\ sends = [e \in Endpoints |-> 0]
    /\ outcome = [mt \in {"movies", "episodes"} |-> [fetch |-> "", remove |-> ""]]
    /\ req = NoRequest
    /\ refresh_tried = {}
    /\ auth_failed = {}
    /\ save_call = None

\* The program as written: KEEP_PER_DAY = False, the credentials from the
\* environment, and whatever token file an earlier run left.
Init ==
    /\ KEEP_PER_DAY = FALSE
    /\ CLIENT_ID \in {GetenvOr(e, "your_client_id") : e \in EnvValues}
    /\ CLIENT_SECRET = GetenvOr({"set"}, "your_client_secret")
    /\ USERNAME = GetenvOr({"set"}, "your_username")
    /\ file \in TokenFiles
    /\ media_type = ""
    /\ history = <<>>
    /\ duplicates = <<>>
    /\ pc = "main"
    /\ Idle

\* ------------------------------------------------------------------------
\* main and TraktClient
\* ------------------------------------------------------------------------

cfgVars == <<CLIENT_ID, CLIENT_SECRET, USERNAME>>

\* The state of the server and of the observer.
obsVars ==
    <<issued, calls, sends, outcome, req, refresh_tried, auth_failed,
      save_call>>

\* The caller a device flow runs for: load_token during TraktClient(), or
\* request.
Caller == IF stack[Len(stack)] = "init_ret" THEN "load_token" ELSE "request"

\* The locals of request and of run.
reqVars == <<call, headers, response>>
cleanerVars == <<todo, stats>>

\* return v: back to the caller.
Return(v) ==
    /\ pc' = Head(stack)
    /\ stack' = Tail(stack)
    /\ ret' = v

\* "not x" for x None or a dict
Not(x) == x = None \/ DOMAIN x = {}

\* main: the credentials check, then TraktClient().
Main ==
    /\ pc = "main"
    /\ IF CLIENT_ID = "" \/ CLIENT_ID = "your_client_id"
       THEN pc' = "exit"
       ELSE pc' = "load_token"
    /\ UNCHANGED <<fdVars, runVars>>

\* load_token, called by __init__.
LoadToken ==
    /\ pc = "load_token"
    /\ IF file = NoFile \/ file = CorruptFile
       THEN /\ token_data' = None
            /\ pc' = "run"
            /\ UNCHANGED <<arg, stack>>
       ELSE IF "expires_at" \in DOMAIN file /\ file["expires_at"] < now
       THEN /\ arg' = file
            /\ stack' = <<"init_ret">> \o stack
            /\ pc' = "refresh"
            /\ UNCHANGED token_data
       ELSE /\ token_data' = file
            /\ pc' = "run"
            /\ UNCHANGED <<arg, stack>>
    /\ UNCHANGED <<fdVars, cfgVars, obsVars, reqVars, cleanerVars, ret, error,
                   now, file, auth>>

\* __init__: self.token_data = self.load_token(), after a refresh.
InitRet ==
    /\ pc = "init_ret"
    /\ token_data' = ret
    /\ ret' = None
    /\ pc' = "run"
    /\ UNCHANGED <<fdVars, cfgVars, obsVars, reqVars, cleanerVars, stack, error,
                   now, file, arg, auth>>

\* save_token that sets self.token_data and leaves TOKEN_FILE as it was.
SaveTokenCacheOnly(token, t) ==
    LET saved == WithExpiresAt(token, t)
    IN  /\ file' = file
        /\ token_data' = saved

\* save_token(token) at time t: the token with its expires_at.
SaveToken(token, t) ==
    LET saved == WithExpiresAt(token, t)
    IN  /\ file' = saved
        /\ token_data' = saved

\* refresh_access_token(arg): the token request, then save_token or authenticate.
RefreshAccessToken ==
    /\ pc = "refresh"
    /\ \E d \in Delays, status \in RefreshStatuses, e \in ExpiresIns :
        /\ now' = now + d
        /\ req' = [req EXCEPT !.refreshes = @ + 1]
        /\ refresh_tried' = refresh_tried \cup {arg["access_token"]}
        /\ arg' = None
        /\ IF status = 200
           THEN /\ issued' = issued + 1
                /\ SaveToken(NewToken(issued', e), now')
                /\ Return(token_data')
           ELSE /\ pc' = "authenticate"
                /\ UNCHANGED <<issued, file, token_data, stack, ret>>
    /\ UNCHANGED <<fdVars, cfgVars, save_call, reqVars, cleanerVars, error, auth, calls,
                   sends, outcome, auth_failed>>

\* authenticate: the device code request.
Authenticate ==
    /\ pc = "authenticate"
    /\ \E d \in Delays, status \in DeviceCodeStatuses,
          timeout \in DeviceTimeouts, iv \in DeviceIntervals :
        /\ now' = now + d
        /\ req' = [req EXCEPT !.flows = @ + 1]
        /\ IF status # 200
           THEN /\ Return(None)
                /\ auth_failed' = auth_failed \cup {Caller}
                /\ UNCHANGED auth
           ELSE /\ auth' = [NoAuth EXCEPT
                                !.start_time = now',
                                !.timeout = timeout,
                                !.interval = IF iv = {} THEN 5 ELSE CHOOSE i \in iv : TRUE]
                /\ pc' = "auth_loop"
                /\ UNCHANGED <<stack, ret, auth_failed>>
    /\ UNCHANGED <<fdVars, cfgVars, save_call, reqVars, cleanerVars, error, file,
                   token_data, arg, issued, calls, sends, outcome,
                   refresh_tried>>

\* No sleep after a 429.
NoRateLimitSleep(interval) == 0

\* time.sleep(interval) after a 429.
RateLimitSleep(interval) == interval

\* The poll sent without sleeping first.
PollTimeNoSleep == now

\* The poll of this turn of the loop goes out after time.sleep(interval).
PollTime == now + auth.interval

\* authenticate: one turn of the while loop: sleep, poll, act on the status.
AuthPoll ==
    /\ pc = "auth_loop"
    /\ now - auth.start_time < auth.timeout
    /\ \E d \in Delays, status \in PollStatuses, e \in ExpiresIns :
        LET answered == PollTime + d
            polled == [auth EXCEPT !.polls = @ + 1, !.status = status,
                                   !.answered = answered]
        IN  IF status = 200
            THEN /\ now' = answered
                 /\ issued' = issued + 1
                 /\ SaveToken(NewToken(issued', e), answered)
                 /\ Return(token_data')
                 /\ auth' = NoAuth
                 /\ UNCHANGED auth_failed
            ELSE IF status = 429
            THEN /\ now' = answered + RateLimitSleep(auth.interval)
                 /\ auth' = polled
                 /\ UNCHANGED <<pc, stack, ret, issued, file, token_data,
                                auth_failed>>
            ELSE IF status # 400
            THEN /\ now' = answered
                 /\ Return(None)
                 /\ auth' = NoAuth
                 /\ auth_failed' = auth_failed \cup {Caller}
                 /\ UNCHANGED <<issued, file, token_data>>
            ELSE /\ now' = answered
                 /\ auth' = polled
                 /\ UNCHANGED <<pc, stack, ret, issued, file, token_data,
                                auth_failed>>
    /\ UNCHANGED <<fdVars, cfgVars, save_call, reqVars, cleanerVars, error, arg, calls,
                   sends, outcome, req, refresh_tried>>

\* authenticate: the while condition is false.
AuthTimeout ==
    /\ pc = "auth_loop"
    /\ ~(now - auth.start_time < auth.timeout)
    /\ Return(None)
    /\ auth' = NoAuth
    /\ auth_failed' = auth_failed \cup {Caller}
    /\ UNCHANGED <<fdVars, cfgVars, save_call, reqVars, cleanerVars, error, now, file,
                   token_data, arg, issued, calls, sends, outcome, req,
                   refresh_tried>>

\* request: entry; without a token, authenticate first.
Request ==
    /\ pc = "request"
    /\ req' = NoRequest
    /\ calls' = [calls EXCEPT ![Endpoint(call.kind, media_type)] = @ + 1]
    /\ IF Not(token_data)
       THEN /\ stack' = <<"request_auth_ret">> \o stack
            /\ pc' = "authenticate"
       ELSE /\ pc' = "request_send"
            /\ UNCHANGED stack
    /\ UNCHANGED <<fdVars, cfgVars, save_call, reqVars, cleanerVars, ret, error, now, file,
                   token_data, arg, auth, issued, sends, outcome, refresh_tried,
                   auth_failed>>

\* request: self.token_data = self.authenticate(), raise without a token.
RequestAuthRet ==
    /\ pc = "request_auth_ret"
    /\ token_data' = ret
    /\ ret' = None
    /\ IF Not(ret)
       THEN /\ pc' = "failed"
            /\ error' = "Authentication required"
       ELSE /\ pc' = "request_send"
            /\ UNCHANGED error
    /\ UNCHANGED <<fdVars, cfgVars, obsVars, reqVars, cleanerVars, stack, now,
                   file, arg, auth>>

\* session.request with the bearer token hdr: the request goes out at time
\* now and is answered d later.
Exchange(hdr, d, status, body) ==
    /\ headers' = hdr
    /\ sends' = [sends EXCEPT ![Endpoint(call.kind, media_type)] = @ + 1]
    /\ req' = [req EXCEPT !.sends = @ + 1]
    /\ now' = now + d
    /\ response' = [status |-> status, body |-> body]

\* return response: the locals of request are gone.
ReturnResponse(resp) ==
    /\ Return(resp)
    /\ call' = NoCall
    /\ headers' = NoHeader
    /\ response' = NoResponse

\* request: the first send; a 401 calls refresh_access_token.
RequestSend ==
    /\ pc = "request_send"
    /\ \E d \in Delays, status \in ApiStatuses(call.kind) :
        \E body \in Bodies(call.kind, media_type, status) :
            IF status = 401
            THEN /\ Exchange(token_data["access_token"], d, status, body)
                 /\ arg' = token_data
                 /\ stack' = <<"request_refresh_ret">> \o stack
                 /\ pc' = "refresh"
                 /\ UNCHANGED <<ret, call>>
            ELSE /\ sends' = [sends EXCEPT ![Endpoint(call.kind, media_type)] = @ + 1]
                 /\ req' = [req EXCEPT !.sends = @ + 1]
                 /\ now' = now + d
                 /\ ReturnResponse([status |-> status, body |-> body])
                 /\ UNCHANGED arg
    /\ UNCHANGED <<fdVars, cfgVars, save_call, cleanerVars, error, file, token_data, auth,
                   issued, calls, outcome, refresh_tried, auth_failed>>

\* The retry sent with the header of the first send.
RetryTokenStale(old, new) == old

\* The token the retry is sent with: the one refresh_access_token returned.
RetryToken(old, new) == new["access_token"]

\* The refresh whose failure is ignored: the retry goes out with the old token.
RequestRefreshRetKeepToken ==
    /\ pc = "request_refresh_ret"
    /\ token_data' = IF ret = None THEN token_data ELSE ret
    /\ ret' = None
    /\ headers' = token_data'["access_token"]
    /\ pc' = "request_retry"
    /\ UNCHANGED <<fdVars, cfgVars, obsVars, cleanerVars, stack, now, file, arg,
                   auth, call, response, error>>

\* request: self.token_data = self.refresh_access_token(..), new header.
RequestRefreshRet ==
    /\ pc = "request_refresh_ret"
    /\ token_data' = ret
    /\ ret' = None
    /\ IF ret = None
       THEN /\ pc' = "failed"
            /\ error' = "TypeError"
            /\ UNCHANGED headers
       ELSE /\ headers' = RetryToken(headers, ret)
            /\ pc' = "request_retry"
            /\ UNCHANGED error
    /\ UNCHANGED <<fdVars, cfgVars, obsVars, cleanerVars, stack, now, file, arg,
                   auth, call, response>>

\* request: the second send; its response is returned whatever its status.
RequestRetry ==
    /\ pc = "request_retry"
    /\ \E d \in Delays, status \in ApiStatuses(call.kind) :
        \E body \in Bodies(call.kind, media_type, status) :
            /\ sends' = [sends EXCEPT ![Endpoint(call.kind, media_type)] = @ + 1]
            /\ req' = [req EXCEPT !.sends = @ + 1]
            /\ now' = now + d
            /\ ReturnResponse([status |-> status, body |-> body])
    /\ UNCHANGED <<fdVars, cfgVars, save_call, cleanerVars, error, file, token_data, arg,
                   auth, issued, calls, outcome, refresh_tried, auth_failed>>

\* ------------------------------------------------------------------------
\* DuplicateCleaner.run
\* ------------------------------------------------------------------------

\* run: the next media type of the for loop, or _print_summary at its end.
RunNext ==
    /\ pc = "run"
    /\ IF todo = <<>>
       THEN /\ pc' = "done"
            /\ UNCHANGED <<todo, media_type, call, stack>>
       ELSE /\ media_type' = Head(todo)
            /\ todo' = Tail(todo)
            /\ call' = [kind |-> "history", data |-> <<>>]
            /\ stack' = <<"get_history_ret">> \o stack
            /\ pc' = "request"
    /\ UNCHANGED <<KEEP_PER_DAY, history, duplicates, cfgVars, obsVars, ret,
                   error, now, file, token_data, arg, auth, headers, response,
                   stats>>

\* A removal call for the first marked entry only.
FirstIdOnly(dups) == <<dups[1]["id"]>>

\* ids_to_remove = [entry['id'] for entry in duplicates]
IdsToRemove(dups) == [i \in DOMAIN dups |-> dups[i]["id"]]

\* The loop left instead of continued.
Break == "done"

\* Where run goes on after "continue": the next turn of the for loop.
Continue == "run"

\* _get_history returns; run goes on to _find_duplicates and, with
\* duplicates, to _remove_duplicates.
GetHistoryRet ==
    /\ pc = "get_history_ret"
    /\ ret' = None
    /\ outcome' = [outcome EXCEPT ![media_type].fetch =
                        IF ret.status # 200 THEN "failed"
                        ELSE IF ret.body = <<>> THEN "empty" ELSE "fetched"]
    /\ LET h == IF ret.status = 200 THEN ret.body ELSE <<>>
           dups == FindDuplicates(h, media_type, KEEP_PER_DAY)
       IN  IF h = <<>>
           THEN /\ history' = h
                /\ pc' = Continue
                /\ UNCHANGED <<duplicates, call, stack>>
           ELSE /\ history' = AnnotateHistory(h, dups, EntryKey(media_type))
                /\ duplicates' = dups
                /\ IF dups # <<>>
                   THEN /\ call' = [kind |-> "remove", data |-> IdsToRemove(dups)]
                        /\ stack' = <<"remove_ret">> \o stack
                        /\ pc' = "request"
                   ELSE /\ pc' = "run"
                        /\ UNCHANGED <<call, stack>>
    /\ UNCHANGED <<KEEP_PER_DAY, media_type, cfgVars, save_call, cleanerVars, error, now,
                   file, token_data, arg, auth, headers, response, issued, calls,
                   sends, req, refresh_tried, auth_failed>>

\* _remove_duplicates returns; run records the count and the entries.
RemoveRet ==
    /\ pc = "remove_ret"
    /\ ret' = None
    /\ outcome' = [outcome EXCEPT ![media_type].remove =
                        IF ret.status \notin {200, 201} THEN "failed" ELSE "removed"]
    /\ stats' = [stats EXCEPT ![media_type] =
                    [count |-> Len(duplicates), removed |-> duplicates]]
    /\ pc' = "run"
    /\ UNCHANGED <<fdVars, cfgVars, save_call, reqVars, stack, error, now, file,
                   token_data, arg, auth, todo, issued, calls, sends, req,
                   refresh_tried, auth_failed>>

Next ==
    \/ Main
    \/ LoadToken
    \/ InitRet
    \/ RefreshAccessToken
    \/ Authenticate
    \/ AuthPoll
    \/ AuthTimeout
    \/ Request
    \/ RequestAuthRet
    \/ RequestSend
    \/ RequestRefreshRet
    \/ RequestRetry
    \/ RunNext
    \/ GetHistoryRet
    \/ RemoveRet

Spec == Init /\ [][Next]_vars

\* The steps of the thread of control, but for the return of _get_history.
ThreadSteps ==
    \/ Main
    \/ LoadToken
    \/ InitRet
    \/ RefreshAccessToken
    \/ Authenticate
    \/ AuthPoll
    \/ AuthTimeout
    \/ Request
    \/ RequestAuthRet
    \/ RequestSend
    \/ RequestRefreshRet
    \/ RequestRetry
    \/ RunNext
    \/ RemoveRet

\* run goes on after _get_history has returned (a step of GetHistoryRet,
\* which is enabled whenever pc = "get_history_ret").
GetHistoryReturns == pc = "get_history_ret" /\ pc' \in {"run", "request"}

\* The single thread of control keeps running until main ends: it takes its
\* next step whenever it has one.
FairSpec == Spec /\ WF_vars(ThreadSteps) /\ WF_pc(GetHistoryReturns)

\* ------------------------------------------------------------------------
\* Properties of request and of the run
\* ------------------------------------------------------------------------

\* C6: within one call of request the API call is sent at most twice and the
\* refresh endpoint is called at most once; a second send happens only after
\* the first was answered 401 and one refresh was requested, and it carries
\* the access token of the token that refresh_access_token returned and
\* saved, never a token a refresh was requested for.
C6_OneRefreshOneRetry ==
    /\ req.sends <= 2
    /\ req.refreshes <= 1
    /\ req.sends = 2 => req.refreshes = 1
    /\ pc = "request_retry" =>
        /\ response.status = 401
        /\ req.sends = 1
        /\ req.refreshes = 1
        /\ token_data = file
        /\ headers = token_data["access_token"]
        /\ headers \notin refresh_tried

C6_Witness ==
    /\ pc = "get_history_ret"
    /\ req.sends = 2
    /\ req.refreshes = 1
    /\ ret.status = 401
    /\ token_data # None

\* C7: no API call is sent bearing the access token of a token whose
\* expires_at is earlier than the current time unless a refresh of that
\* token was requested first.  (In the states request_send and request_retry
\* the call goes out at time now with token_data's access token.)
C7_ExpiredTokenNeverSent ==
    ( /\ pc \in {"request_send", "request_retry"}
      /\ "expires_at" \in DOMAIN token_data
      /\ token_data["expires_at"] < now )
    => token_data["access_token"] \in refresh_tried

\* C8: request ends in one of two ways: it returns a response, or it fails
\* with the authentication-required failure, also when a 401 is followed by
\* a failed refresh and a failed re-authentication.
C8_AuthenticationRequiredOnly ==
    pc = "failed" => error = "Authentication required"

\* C9 as stated: once a device flow has failed, at construction or later, no
\* history or removal call is sent any more.
C9_NoCallAfterAnyAuthFailure ==
    [][auth_failed # {} => sends' = sends]_vars

\* C9 amended: once a device flow started by request has failed, no history
\* or removal call is sent any more.
C9_NoCallAfterAuthFailureInRequest ==
    []["request" \in auth_failed => sends' = sends]_vars

C9_Witness ==
    /\ pc = "failed"
    /\ "request" \in auth_failed
    /\ calls["history_episodes"] = 1
    /\ sends["remove_movies"] >= 1

BadFetch(mt) == outcome[mt].fetch \in {"failed", "empty"}

MoviesSetback == BadFetch("movies") \/ outcome["movies"].remove = "failed"

\* C10: a failed or empty fetch of a type makes no removal call and leaves
\* its count zero; there is at most one removal call per type, also when it
\* fails; and after a failed or empty movies fetch or a failed movies removal
\* the episodes history is still fetched (the run does not end before that
\* request is sent) and processed: when the run is done its duplicates have
\* been counted and submitted.
C10_TypesIndependent ==
    /\ \A mt \in {"movies", "episodes"} :
        /\ BadFetch(mt) =>
            /\ calls[Endpoint("remove", mt)] = 0
            /\ sends[Endpoint("remove", mt)] = 0
            /\ stats[mt].count = 0
        /\ calls[Endpoint("remove", mt)] <= 1
    /\ (MoviesSetback /\ pc \in {"done", "failed"}) => sends["history_episodes"] >= 1
    /\ (MoviesSetback /\ pc = "done") =>
        /\ outcome["episodes"].fetch # ""
        /\ outcome["episodes"].fetch = "fetched" =>
            LET n == Len(FindDuplicates(history, "episodes", KEEP_PER_DAY))
            IN  /\ stats["episodes"].count = n
                /\ calls["remove_episodes"] = IF n > 0 THEN 1 ELSE 0

C10_Witness ==
    /\ pc = "done"
    /\ outcome["movies"].remove = "failed"
    /\ outcome["episodes"].remove = "removed"
    /\ stats["movies"].count = 2
    /\ stats["episodes"].count = 2

\* The entry ids of a list of entries, in its order.
Ids(entries) == [i \in DOMAIN entries |-> entries[i]["id"]]

\* The removal call of media type mt has been answered.
RemovalAnswered(mt) == outcome[mt].remove # ""

\* C17: per media type request is called at most once for a removal (sent
\* at most twice, the second time as the retry after a 401); the call is
\* made with at least one marked entry and its id list is the list of the ids
\* of the entries _find_duplicates marked in that type's history; once it is
\* answered, with whatever status, the type's count is the number of marked
\* entries, and neither the count nor the number of removal calls and sends
\* of the type changes afterwards.
C17_OneRemovalCallPerType ==
    /\ [](\A mt \in {"movies", "episodes"} :
            /\ calls[Endpoint("remove", mt)] <= 1
            /\ sends[Endpoint("remove", mt)] <= 2
            /\ RemovalAnswered(mt) =>
                    /\ calls[Endpoint("remove", mt)] = 1
                    /\ stats[mt].count > 0
                    /\ stats[mt].count = Len(stats[mt].removed))
    /\ [](call.kind = "remove" =>
            /\ call.data # <<>>
            /\ call.data = Ids(duplicates)
            /\ call.data = Ids(FindDuplicates(history, media_type, KEEP_PER_DAY)))
    /\ [][pc = "remove_ret" =>
            /\ stats'[media_type].count = Len(duplicates)
            /\ Ids(stats'[media_type].removed) = Ids(duplicates)]_vars
    /\ [][\A mt \in {"movies", "episodes"} :
            RemovalAnswered(mt) =>
                /\ stats'[mt] = stats[mt]
                /\ calls'[Endpoint("remove", mt)] = calls[Endpoint("remove", mt)]
                /\ sends'[Endpoint("remove", mt)] = sends[Endpoint("remove", mt)]]_vars

\* Both removal calls were sent twice; the one for the movies failed, and
\* each type's count is the two entries marked.
C17_Witness ==
    /\ pc = "done"
    /\ sends["remove_movies"] = 2
    /\ sends["remove_episodes"] = 2
    /\ outcome["movies"].remove = "failed"
    /\ Ids(stats["movies"].removed) = <<3, 2>>
    /\ Ids(stats["episodes"].removed) = <<3, 2>>

\* ------------------------------------------------------------------------
\* Properties of authenticate
\* ------------------------------------------------------------------------

\* The while condition of the poll loop holds: a poll will be sent.
WillPoll == pc = "auth_loop" /\ now - auth.start_time < auth.timeout

\* A step of the poll loop that ends authenticate.
LeavesLoop == pc = "auth_loop" /\ pc' # "auth_loop"

\* C12: in the poll loop, the poll after a 400 response is sent one interval
\* after that response arrived and the poll after a 429 response two
\* intervals after; the loop is never continued after a response of another
\* status; a poll answered 200 (the server issues a token) ends authenticate
\* with that token saved in the token file and returned; authenticate ending
\* in any other way returns no token and leaves the token file as it was.
C12_PollSchedule ==
    /\ [](pc = "auth_loop" => auth.status \in {0, 400, 429})
    /\ []((WillPoll /\ auth.status = 400) => PollTime = auth.answered + auth.interval)
    /\ []((WillPoll /\ auth.status = 429) => PollTime = auth.answered + 2 * auth.interval)
    /\ [][(pc = "auth_loop" /\ issued' # issued) =>
            /\ LeavesLoop
            /\ pc' = Head(stack)
            /\ ret' = file'
            /\ token_data' = file'
            /\ file'["access_token"] = issued'
            /\ file'["expires_at"] = now' + file'["expires_in"]]_vars
    /\ [][(LeavesLoop /\ issued' = issued) =>
            /\ pc' = Head(stack)
            /\ ret' = None
            /\ file' = file
            /\ token_data' = token_data]_vars

\* A second poll is about to be sent after the first was answered 429.
C12_Witness ==
    /\ WillPoll
    /\ auth.status = 429
    /\ auth.polls = 1
    /\ PollTime = auth.start_time + 3 * auth.interval

\* C15: every poll is sent while the time elapsed since the device code was
\* obtained is less than the expires_in that came with the device code.
C15_NoPollAfterTimeout ==
    WillPoll => PollTime - auth.start_time < auth.timeout

\* ceil(a / b) for b > 0
CeilDiv(a, b) == (a + b - 1) \div b

\* main has ended: normally, with sys.exit(1), or with an exception.
Ended == pc \in {"done", "exit", "failed"}

\* C16: main eventually ends; an authenticate call never sends more than
\* ceil(expires_in / interval) polls; one call of request starts at most two
\* device flows, one refresh and two sends, the construction of the client
\* at most one device flow, and request is called at most once per history
\* and removal endpoint, so the device flows and API calls of a run are
\* bounded.
C16_Terminates ==
    /\ <>Ended
    /\ [](pc = "auth_loop" => auth.polls <= CeilDiv(auth.timeout, auth.interval))
    /\ [](WillPoll => auth.polls + 1 <= CeilDiv(auth.timeout, auth.interval))
    /\ [](req.flows <= 2 /\ req.refreshes <= 1 /\ req.sends <= 2)
    /\ []((\A e \in Endpoints : calls[e] = 0) => req.flows <= 1)
    /\ [](\A e \in Endpoints : calls[e] <= 1 /\ sends[e] <= 2)

\* The run has ended in a call of request that started two device flows, one
\* for want of a token and one after the failed refresh that followed a 401,
\* after the client had started one at its construction.
C16_Witness ==
    /\ pc = "failed"
    /\ req.flows = 2
    /\ req.refreshes = 1
    /\ req.sends = 1
    /\ auth_failed = {"load_token", "request"}
    /\ calls["history_movies"] = 1

\* ------------------------------------------------------------------------
\* The run with every credential taken from the environment
\* ------------------------------------------------------------------------

\* Each of the three credentials is set or left to its placeholder; the
\* token file holds the expired token of an earlier run.
InitConfig ==
    /\ KEEP_PER_DAY = FALSE
    /\ CLIENT_ID \in {GetenvOr(e, "your_client_id") : e \in EnvValues}
    /\ CLIENT_SECRET \in {GetenvOr(e, "your_client_secret") : e \in EnvValues}
    /\ USERNAME \in {GetenvOr(e, "your_username") : e \in EnvValues}
    /\ file \in {f \in TokenFiles : "expires_at" \in DOMAIN f /\ f["expires_at"] < 0}
    /\ media_type = ""
    /\ history = <<>>
    /\ duplicates = <<>>
    /\ pc = "main"
    /\ Idle

SpecConfig == InitConfig /\ [][Next]_vars

MissingCredential ==
    \/ CLIENT_ID \in {"", "your_client_id"}
    \/ CLIENT_SECRET \in {"", "your_client_secret"}
    \/ USERNAME \in {"", "your_username"}

\* No device code, token, history or removal request has been sent.
NoNetworkCall ==
    /\ \A e \in Endpoints : sends[e] = 0
    /\ refresh_tried = {}
    /\ req = NoRequest
    /\ auth = NoAuth
    /\ auth_failed = {}
    /\ issued = 0

\* C11: when the client identifier, the client secret or the username is
\* missing or a placeholder, no request of any kind is sent in the run.
C11_AnyMissingCredentialAborts ==
    MissingCredential => NoNetworkCall

\* ------------------------------------------------------------------------
\* save_token by one client, load_token by the next
\* ------------------------------------------------------------------------

\* The latest time of a save or a load.
MaxClock == 3

\* The lifetimes of the tokens handed to save_token.
SavedExpiresIns == {1, 2}

\* A client is about to save a token; nothing else has happened.
InitRoundTrip ==
    /\ KEEP_PER_DAY = FALSE
    /\ CLIENT_ID = GetenvOr({"set"}, "your_client_id")
    /\ CLIENT_SECRET = GetenvOr({"set"}, "your_client_secret")
    /\ USERNAME = GetenvOr({"set"}, "your_username")
    /\ file = NoFile
    /\ media_type = ""
    /\ history = <<>>
    /\ duplicates = <<>>
    /\ pc = "save_token"
    /\ Idle

\* Time passes, before the save or between the save and the load.
Elapse ==
    /\ pc \in {"save_token", "saved"}
    /\ now < MaxClock
    /\ now' = now + 1
    /\ UNCHANGED <<pc, fdVars, cfgVars, obsVars, reqVars, cleanerVars, stack,
                   ret, error, file, token_data, arg, auth>>

\* save_token(token), for a token as the server issues them.
SaveTokenCall ==
    /\ pc = "save_token"
    /\ \E e \in SavedExpiresIns :
        /\ SaveToken(NewToken(0, e), now)
        /\ save_call' = [token |-> NewToken(0, e), time |-> now]
    /\ pc' = "saved"
    /\ UNCHANGED <<fdVars, cfgVars, reqVars, cleanerVars, stack, ret, error,
                   now, arg, auth, issued, calls, sends, outcome, req,
                   refresh_tried, auth_failed>>

\* TraktClient(): a new client, which has no token before load_token returns.
NewClient ==
    /\ pc = "saved"
    /\ token_data' = None
    /\ pc' = "load_token"
    /\ UNCHANGED <<fdVars, cfgVars, obsVars, reqVars, cleanerVars, stack, ret,
                   error, now, file, arg, auth>>

NextRoundTrip ==
    \/ Elapse
    \/ SaveTokenCall
    \/ NewClient
    \/ LoadToken
    \/ InitRet
    \/ RefreshAccessToken
    \/ Authenticate
    \/ AuthPoll
    \/ AuthTimeout

SpecRoundTrip == InitRoundTrip /\ [][NextRoundTrip]_vars

\* The new client holds what load_token returned.
Loaded == pc = "run" /\ save_call # None

\* The loaded token is the saved one, with its expires_at.
RoundTrip ==
    /\ token_data # None
    /\ token_data["access_token"] = save_call.token["access_token"]
    /\ token_data["expires_at"] = save_call.time + save_call.token["expires_in"]

\* C13 as stated: whenever a token is saved and whenever it is loaded, the
\* loaded token has the access_token of the saved one and expires_at = save
\* time + expires_in.
C13_RoundTripAtAnyTime == Loaded => RoundTrip

\* C13 amended: the same, for a load that is not later than save time +
\* expires_in.  (A load that finds the token expired takes time or fails, so
\* the load was in time exactly when the clock after it is.)
C13_RoundTripBeforeExpiry ==
    (Loaded /\ now <= save_call.time + save_call.token["expires_in"]) => RoundTrip

\* Saved after time 0, loaded later, at the very time the token expires.
C13_Witness ==
    /\ Loaded
    /\ save_call.time > 0
    /\ now = save_call.time + save_call.token["expires_in"]
    /\ RoundTrip
    /\ token_data = file

\* ------------------------------------------------------------------------
\* _find_duplicates applied to a history
\* ------------------------------------------------------------------------

InitFD ==
    /\ KEEP_PER_DAY \in BOOLEAN
    /\ media_type \in {"movies", "episodes"}
    /\ history = <<>>
    /\ duplicates = <<>>
    /\ pc = "history"
    /\ CLIENT_ID = GetenvOr({"set"}, "your_client_id")
    /\ CLIENT_SECRET = GetenvOr({"set"}, "your_client_secret")
    /\ USERNAME = GetenvOr({"set"}, "your_username")
    /\ file = NoFile
    /\ Idle

\* The server's history grows by one entry, whose id no other entry has.
AddEntry ==
    /\ pc = "history"
    /\ Len(history) < MaxHist
    /\ \E id \in 1..MaxHist, w \in WatchedAts, r \in EntryRefs(media_type),
          ps \in Optional(ProgressValues) :
        /\ \A i \in DOMAIN history : history[i]["id"] # id
        /\ history' = Append(history, Entry(id, w, r[1], r[2], ps))
    /\ UNCHANGED <<KEEP_PER_DAY, pc, media_type, duplicates, runVars>>

CallFindDuplicates ==
    /\ pc = "history"
    /\ duplicates' = FindDuplicates(history, media_type, KEEP_PER_DAY)
    /\ history' = AnnotateHistory(history, duplicates', EntryKey(media_type))
    /\ pc' = "found"
    /\ UNCHANGED <<KEEP_PER_DAY, media_type, runVars>>

NextFD == AddEntry \/ CallFindDuplicates

SpecFD == InitFD /\ [][NextFD]_vars

\* ------------------------------------------------------------------------
\* Properties of _find_duplicates
\* ------------------------------------------------------------------------

\* The positions of history, and those whose trakt id can be extracted.
Positions == DOMAIN history

Extractable ==
    {i \in Positions : HasTraktId(history[i], EntryKey(media_type))}

\* The calendar day of a timestamp: its text up to the first 'T'.
DatePart(w) ==
    LET ts == {k \in DOMAIN w : w[k] = CharT}
    IN  IF ts = {} THEN w
        ELSE SubSeq(w, 1, (CHOOSE k \in ts : \A l \in ts : k <= l) - 1)

\* a precedes b as text.
TextBefore(a, b) ==
    \/ Len(a) < Len(b) /\ SubSeq(b, 1, Len(a)) = a
    \/ \E k \in DOMAIN a \cap DOMAIN b :
        /\ SubSeq(a, 1, k - 1) = SubSeq(b, 1, k - 1)
        /\ a[k] < b[k]

\* Entry i precedes entry j in the (watched_at, entry_id) order.
Precedes(i, j) ==
    \/ TextBefore(history[i]["watched_at"], history[j]["watched_at"])
    \/ /\ history[i]["watched_at"] = history[j]["watched_at"]
       /\ history[i]["id"] < history[j]["id"]

\* Two extractable entries belong to one duplicate group.
SameGroup(i, j) ==
    /\ TraktId(history[i], EntryKey(media_type)) = TraktId(history[j], EntryKey(media_type))
    /\ KEEP_PER_DAY =>
        DatePart(history[i]["watched_at"]) = DatePart(history[j]["watched_at"])

GroupOf(i) == {j \in Extractable : SameGroup(i, j)}

\* The ids in the returned removal list, and the positions they stand for.
RemovedIds == {duplicates[k]["id"] : k \in DOMAIN duplicates}

Removed == {i \in Positions : history[i]["id"] \in RemovedIds}

KeptOf(i) == GroupOf(i) \ Removed

FullProgress(i) == "progress" \in DOMAIN history[i] /\ history[i]["progress"] >= 100

\* C1: in every duplicate group of more than one entry, exactly one member is
\* absent from the removal list and every other member is in it (once).
C1_ExactlyOneKept ==
    pc = "found" =>
        /\ \A i \in Extractable :
            Cardinality(GroupOf(i)) > 1 => Cardinality(KeptOf(i)) = 1
        /\ \A k, l \in DOMAIN duplicates :
            duplicates[k]["id"] = duplicates[l]["id"] => k = l

C1_Witness ==
    /\ pc = "found"
    /\ \E i \in Extractable :
        /\ Cardinality(GroupOf(i)) = 3
        /\ Cardinality(GroupOf(i) \cap Removed) = 2
        /\ \E j \in GroupOf(i) \ {i} :
            history[i]["watched_at"] = history[j]["watched_at"]

\* C2: in a group of more than one entry with a member of progress >= 100, the
\* kept entry is the member with progress >= 100 that precedes every other
\* such member; no entry with progress < 100 is kept.
C2_FirstFullProgressKept ==
    pc = "found" =>
        \A i \in Extractable :
            (Cardinality(GroupOf(i)) > 1 /\ \E j \in GroupOf(i) : FullProgress(j)) =>
                \A k \in KeptOf(i) :
                    /\ FullProgress(k)
                    /\ \A j \in GroupOf(i) : (FullProgress(j) /\ j # k) => Precedes(k, j)

C2_Witness ==
    /\ pc = "found"
    /\ \E i \in Extractable :
        /\ Cardinality({j \in GroupOf(i) : FullProgress(j)}) = 2
        /\ \E k \in GroupOf(i) \cap Removed : FullProgress(k)
        /\ \E k \in GroupOf(i) \cap Removed, j \in KeptOf(i) :
            ~FullProgress(k) /\ Precedes(j, k)
        /\ \E j \in KeptOf(i) : FullProgress(j)

\* C3: in a group of more than one entry with no member of progress >= 100
\* (members without a progress field included), the kept entry is the member
\* that every other member precedes.
C3_NewestKeptWithoutFullProgress ==
    pc = "found" =>
        \A i \in Extractable :
            (Cardinality(GroupOf(i)) > 1 /\ \A j \in GroupOf(i) : ~FullProgress(j)) =>
                /\ KeptOf(i) # {}
                /\ \A k \in KeptOf(i) : \A j \in GroupOf(i) \ {k} : Precedes(j, k)

C3_Witness ==
    /\ pc = "found"
    /\ \E i \in Extractable :
        /\ Cardinality(GroupOf(i)) = 3
        /\ \A j \in GroupOf(i) : ~FullProgress(j)
        /\ \E j \in GroupOf(i) : "progress" \notin DOMAIN history[j]
        /\ \E j \in GroupOf(i) : "progress" \in DOMAIN history[j]
        /\ \E k \in KeptOf(i), j \in GroupOf(i) \cap Removed :
            /\ history[j]["watched_at"] = history[k]["watched_at"]
            /\ history[j]["id"] < history[k]["id"]

\* C4: an entry that is the only member of its group is never in the
\* removal list, for both media types and both settings of KEEP_PER_DAY.
C4_SingletonNeverRemoved ==
    pc = "found" =>
        \A i \in Extractable : GroupOf(i) = {i} => i \notin Removed

C4_Witness ==
    /\ pc = "found"
    /\ KEEP_PER_DAY
    /\ \E i \in Extractable :
        /\ GroupOf(i) = {i}
        /\ i \notin Removed
        /\ \E j \in Removed :
            TraktId(history[j], EntryKey(media_type))
                = TraktId(history[i], EntryKey(media_type))

\* The history without position j.
HistoryWithout(j) ==
    SubSeq(history, 1, j - 1) \o SubSeq(history, j + 1, Len(history))

RemovedIdsWithout(j) ==
    LET d == FindDuplicates(HistoryWithout(j), media_type, KEEP_PER_DAY)
    IN  {d[k]["id"] : k \in DOMAIN d}

\* C5: with KEEP_PER_DAY on, entries of one trakt id on different days are
\* never grouped: of two such entries neither is removed when each is alone
\* on its day, and whether an entry is removed is the same with the other
\* entry taken out of the history.
C5_DifferentDaysNeverGrouped ==
    (pc = "found" /\ KEEP_PER_DAY) =>
        \A i, j \in Extractable :
            ( /\ TraktId(history[i], EntryKey(media_type))
                    = TraktId(history[j], EntryKey(media_type))
              /\ DatePart(history[i]["watched_at"]) # DatePart(history[j]["watched_at"]) )
            =>  /\ j \notin GroupOf(i)
                /\ (GroupOf(i) = {i} /\ GroupOf(j) = {j}) => (i \notin Removed /\ j \notin Removed)
                /\ (history[i]["id"] \in RemovedIds) <=> (history[i]["id"] \in RemovedIdsWithout(j))

C5_Witness ==
    /\ pc = "found"
    /\ KEEP_PER_DAY
    /\ \E i, j \in Extractable :
        /\ TraktId(history[i], EntryKey(media_type))
                = TraktId(history[j], EntryKey(media_type))
        /\ DatePart(history[i]["watched_at"]) # DatePart(history[j]["watched_at"])
        /\ i \in Removed
        /\ FullProgress(j) /\ Precedes(i, j) /\ j \notin Removed

\* The history with the entries of positions i and j exchanged.
Swapped(i, j) ==
    [k \in Positions |-> history[IF k = i THEN j ELSE IF k = j THEN i ELSE k]]

\* C14: the ids marked for removal, and with them the entry kept in every
\* group, do not depend on the order of the history: they are the same with
\* any two entries exchanged.  (Every order of every set of entries is a
\* history here, and exchanges lead from any order to any other.)
C14_OrderIndependent ==
    pc = "found" =>
        \A i, j \in Positions :
            i < j =>
                LET d == FindDuplicates(Swapped(i, j), media_type, KEEP_PER_DAY)
                IN  /\ {d[k]["id"] : k \in DOMAIN d} = RemovedIds
                    /\ Len(d) = Len(duplicates)

\* Three entries of one group, two of them with the same watched_at, returned
\* in an order that is not the sorted one.
C14_Witness ==
    /\ pc = "found"
    /\ Len(history) = 3
    /\ Extractable = Positions
    /\ GroupOf(1) = Positions
    /\ history[1]["watched_at"] = history[2]["watched_at"]
    /\ history[1]["id"] > history[2]["id"]
    /\ Precedes(3, 1)
    /\ \A i \in Positions : ~FullProgress(i)
    /\ Removed = {2, 3}

\* C18: an entry whose trakt id cannot be extracted (no reference under the
\* type's key, no ids, or no trakt id) is not in the removal list and not
\* counted, and the removal list is the one of the history without it: the
\* keepers are the same and the entries after it are processed.
C18_UnextractableSkipped ==
    pc = "found" =>
        /\ Removed \subseteq Extractable
        /\ Len(duplicates) = Cardinality(Removed)
        /\ \A i \in Positions \ Extractable :
            /\ "_title" \notin DOMAIN history[i]
            /\ RemovedIdsWithout(i) = RemovedIds

\* An entry without a trakt id comes first, with the watched_at of the entry
\* kept of the two that follow it.
C18_Witness ==
    /\ pc = "found"
    /\ Len(history) = 3
    /\ Extractable = {2, 3}
    /\ EntryKey(media_type) \in DOMAIN history[1]
    /\ "ids" \in DOMAIN history[1][EntryKey(media_type)]
    /\ Removed = {3}
    /\ history[1]["watched_at"] = history[2]["watched_at"]
    /\ history[1]["id"] > history[2]["id"]
    /\ FullProgress(1)

\* The history once the server has deleted the marked entries.
NotMarked(entry) == entry["id"] \notin RemovedIds

HistoryAfterRemoval == SelectSeq(history, NotMarked)

\* C19: _find_duplicates applied to the history with the marked entries
\* deleted marks nothing, and every trakt id (every day of it when
\* KEEP_PER_DAY is on) that had an entry has exactly one entry left.
C19_Idempotent ==
    pc = "found" =>
        /\ FindDuplicates(HistoryAfterRemoval, media_type, KEEP_PER_DAY) = <<>>
        /\ \A i \in Extractable : Cardinality(KeptOf(i)) = 1
        /\ Len(HistoryAfterRemoval) = Len(history) - Len(duplicates)

\* Three entries of one trakt id, two of them on one day: per day, one entry
\* was marked and two are left.
C19_Witness ==
    /\ pc = "found"
    /\ KEEP_PER_DAY
    /\ Extractable = {1, 2, 3}
    /\ \A i \in Positions :
            TraktId(history[i], EntryKey(media_type))
                = TraktId(history[1], EntryKey(media_type))
    /\ Len(duplicates) = 1
    /\ Len(HistoryAfterRemoval) = 2
    /\ FindDuplicates(HistoryAfterRemoval, media_type, FALSE) # <<>>

\* ------------------------------------------------------------------------
\* The cached token and TOKEN_FILE
\* ------------------------------------------------------------------------

\* The server has just issued a token: a refresh or a device flow succeeded.
TokenIssued == issued' # issued

\* C20: whenever token_data is not None it is the record TOKEN_FILE holds
\* (same access_token, refresh_token and expires_at), the token of every API
\* request sent is the access_token of the file, and a successful refresh or
\* authentication writes the new token to the file in the step that receives
\* it, before any API request is sent with it.
C20_TokenDataIsTheFile ==
    /\ [](token_data # None =>
            /\ token_data = file
            /\ {"access_token", "refresh_token"} \subseteq DOMAIN file)
    /\ [](pc = "request_send" => token_data # None)
    /\ [](pc = "request_retry" =>
            /\ token_data # None
            /\ token_data = file
            /\ headers = token_data["access_token"])
    /\ [][TokenIssued =>
            /\ token_data' # None
            /\ file' = token_data'
            /\ token_data'["access_token"] = issued'
            /\ token_data'["expires_at"] = now' + token_data'["expires_in"]
            /\ sends' = sends
            /\ ret' = token_data']_vars

\* A request answered 401 whose refresh failed and whose device flow
\* succeeded, after a refresh during construction: the retry is about to go
\* out with the second token issued, the one in the file.
C20_Witness ==
    /\ pc = "request_retry"
    /\ issued = 2
    /\ req.flows = 1
    /\ headers = 2
    /\ token_data # None
    /\ token_data = file
    /\ file["access_token"] = 2
    /\ file["expires_at"] = now + 2

====
